---------------------------- MODULE Spec2Model ----------------------------
(***************************************************************************)
(* A byte-level model of the tiny write-ahead log described in             *)
(* src/content/blog "A Tiny Corruption-Proof Write-Ahead Log in Go".       *)
(*                                                                         *)
(* The file is a sequence of bytes (0..255).  32-bit words do not fit the  *)
(* model checker's integers, so a uint32 is kept as its four base-256      *)
(* digits and the 64-bit trailer magic as four 16-bit words; the           *)
(* little-endian byte order of the on-disk fields is modelled explicitly.  *)
(***************************************************************************)
EXTENDS Integers, Sequences, FiniteSets, TLC

(* ------------------------------ bounds --------------------------------- *)

\* configured maximum payload size (the bound "Validate length" checks)
MaxPayload == 1

\* number of Append calls (successful, rejected-as-torn) in one behaviour
MaxAppends == 3

\* number of crashes in the middle of an Append in one behaviour
MaxCrashes == 1

\* storage faults are injected into logs of at most this many records
MaxFaultLog == 2

(* --------------------------- record layout ----------------------------- *)

crcSize == 4

lenSize == 4

trailerSize == 8

headerSize == crcSize + lenSize

\* 0xDEADBEEFFEEDFACE as 16-bit words, most significant first
trailerMagic == <<57005, 48879, 65261, 64206>>

\* A uint32 is kept as its four base-256 digits, most significant first.

\* reflected IEEE polynomial 0xEDB88320 of the crc32 table
crcPoly == <<237, 184, 131, 32>>

Byte == 0..255

(* --------------------------- bit arithmetic ---------------------------- *)

RECURSIVE XorN(_, _, _)
XorN(a, b, n) ==
    IF n = 0 THEN 0
    ELSE (((a % 2) + (b % 2)) % 2) + 2 * XorN(a \div 2, b \div 2, n - 1)

\* the sequence <<g[lo], ..., g[hi]>>, built once as a table
RECURSIVE TableOf(_, _, _)
TableOf(g, lo, hi) ==
    IF lo = hi THEN <<g[lo]>>
    ELSE TableOf(g, lo, (lo + hi) \div 2) \o TableOf(g, ((lo + hi) \div 2) + 1, hi)

\* xor of two 4-bit values x and y, at index 16 * x + y + 1
xor4 == TableOf([k \in 0..255 |-> XorN(k \div 16, k % 16, 4)], 0, 255)

\* xor of two bytes x and y, at index 256 * x + y + 1
xor8 ==
    TableOf([k \in 0..65535 |->
                xor4[16 * ((k \div 256) % 16) + (k % 16) + 1]
                    + 16 * xor4[16 * (k \div 4096) + ((k % 256) \div 16) + 1]],
            0, 65535)

Xor8(a, b) == xor8[256 * a + b + 1]

\* 32-bit xor
Xor32(x, y) ==
    <<Xor8(x[1], y[1]), Xor8(x[2], y[2]), Xor8(x[3], y[3]), Xor8(x[4], y[4])>>

\* x >> 1 and x >> 8
Shr1(x) ==
    <<x[1] \div 2, (x[2] \div 2) + (x[1] % 2) * 128,
      (x[3] \div 2) + (x[2] % 2) * 128, (x[4] \div 2) + (x[3] % 2) * 128>>

Shr8(x) == <<0, x[1], x[2], x[3]>>

\* one bit of a table entry: shift right, xor the polynomial when a
\* one was shifted out
TableBit(c) == IF c[4] % 2 = 1 THEN Xor32(crcPoly, Shr1(c)) ELSE Shr1(c)

\* c after k bits (each intermediate value is computed once and bound
\* before it is used)
RECURSIVE TableEntry(_, _)
TableEntry(c, k) ==
    IF k = 0 THEN c
    ELSE CHOOSE r \in {TableBit(d) : d \in {TableEntry(c, k - 1)}} : TRUE

\* the 256 entries of the table, entry i at index i + 1
crcTable == TableOf([i \in Byte |-> TableEntry(<<0, 0, 0, i>>, 8)], 0, 255)

\* one byte b folded into the running value c:
\* crcTable[byte(c) ^ b] ^ (c >> 8)
crcByte(c, b) ==
    CHOOSE r \in {Xor32(entry, Shr8(c)) : entry \in {crcTable[Xor8(c[4], b) + 1]}} :
        TRUE

\* the running value crc after the first n bytes of data (each running
\* value is computed once and bound before it is used)
RECURSIVE crcUpdate(_, _, _)
crcUpdate(crc, data, n) ==
    IF n = 0 THEN crc
    ELSE CHOOSE r \in {crcByte(c, data[n]) : c \in {crcUpdate(crc, data, n - 1)}} :
            TRUE

\* variant of Checksum: only the length field is summed
ChecksumOfLength(bytes) ==
    CHOOSE r \in {Xor32(crcUpdate(<<255, 255, 255, 255>>, data, lenSize),
                        <<255, 255, 255, 255>>) : data \in {bytes}} : TRUE

\* crc32.Checksum(bytes, crcTable)
Checksum(bytes) ==
    CHOOSE r \in {Xor32(crcUpdate(<<255, 255, 255, 255>>, data, Len(data)),
                        <<255, 255, 255, 255>>) : data \in {bytes}} : TRUE

(* ------------------------ little-endian fields ------------------------- *)

\* uint32(n) for a length n
ToUint32(n) == <<0, (n \div 65536) % 256, (n \div 256) % 256, n % 256>>

\* binary.LittleEndian.PutUint32: least significant byte first
PutUint32(x) == <<x[4], x[3], x[2], x[1]>>

\* binary.LittleEndian.Uint32 of four bytes
Uint32(b) == <<b[4], b[3], b[2], b[1]>>

\* binary.LittleEndian.PutUint64 of four 16-bit words (most significant first)
PutUint64(w) ==
    <<w[4] % 256, w[4] \div 256, w[3] % 256, w[3] \div 256,
      w[2] % 256, w[2] \div 256, w[1] % 256, w[1] \div 256>>

\* binary.LittleEndian.Uint64 of eight bytes, as four 16-bit words
Uint64(b) ==
    <<b[7] + 256 * b[8], b[5] + 256 * b[6], b[3] + 256 * b[4], b[1] + 256 * b[2]>>

Zeros(n) == [i \in 1..n |-> 0]

\* bytes f[off+1 .. off+n] (off is a 0-based file offset)
Slice(s, first, cnt) == SubSeq(s, first + 1, first + cnt)

(* ------------------------------ alignment ------------------------------ *)

\* variant of alignUp: the low bits are not cleared
alignUpNoMask(n) == n + 7

\* (n + 7) &^ 7
alignUp(n) == ((n + 7) \div 8) * 8

\* variant of recordSize: the record is not padded
recordSizeUnpadded(n) == headerSize + n + trailerSize

\* total on-disk size of a record holding n payload bytes
recordSize(n) == alignUp(headerSize + n + trailerSize)

(* ------------------------------- Encode -------------------------------- *)

\* variant of encodeBody: no padding is written behind the trailer
encodeBodyUnpadded(payload) ==
    PutUint32(ToUint32(Len(payload))) \o payload \o PutUint64(trailerMagic)

\* buf[4:] of the record buffer: length, data, trailer, zero padding
encodeBody(payload) ==
    PutUint32(ToUint32(Len(payload))) \o payload \o PutUint64(trailerMagic)
        \o Zeros(recordSize(Len(payload)) - (headerSize + Len(payload) + trailerSize))

\* variant of Encode: only the length field and the payload are summed
EncodeSumsLengthPayload(payload) ==
    PutUint32(Checksum(PutUint32(ToUint32(Len(payload))) \o payload))
        \o encodeBody(payload)

\* the record buffer: the CRC of buf[4:] in front of it
Encode(payload) ==
    PutUint32(Checksum(encodeBody(payload))) \o encodeBody(payload)

(* ------------------------------- Decode -------------------------------- *)

Failed(e) == [err |-> e, payload |-> <<>>, size |-> 0]

\* variant of crcMismatch: the checksum is not compared
crcNotChecked(buf) == FALSE

\* crcStored != crcComputed, for the record buffer buf
crcMismatch(buf) ==
    \E b \in {buf} : Uint32(SubSeq(b, 1, 4)) # Checksum(SubSeq(b, 5, Len(b)))

\* variant of lengthInvalid: the length is not validated
lengthNotChecked(length) == FALSE

\* the length field is above the configured maximum
lengthInvalid(length) ==
    length[1] # 0 \/ length[2] # 0 \/ 256 * length[3] + length[4] > MaxPayload

\* variant of Decode: the CRC is checked before the trailer
DecodeCrcFirst(f, off) ==
    IF Len(f) - off < headerSize THEN Failed("ErrShortRead")
    ELSE LET length == Uint32(Slice(f, off + crcSize, lenSize)) IN
      IF lengthInvalid(length) THEN Failed("ErrInvalidLength")
      ELSE LET n == 256 * length[3] + length[4]
               trailerOffset == headerSize + n
               total == recordSize(n)
           IN
        IF Len(f) - off < total THEN Failed("ErrShortRead")
        ELSE IF crcMismatch(Slice(f, off, total)) THEN Failed("ErrCorrupt")
        ELSE IF Uint64(Slice(f, off + trailerOffset, trailerSize)) # trailerMagic
             THEN Failed("ErrIncompleteRecord")
        ELSE [err |-> "ok", payload |-> Slice(f, off + headerSize, n),
              size |-> total]

\* variant of Decode: the trailer is verified before the length is validated
DecodeTrailerFirst(f, off) ==
    IF Len(f) - off < headerSize THEN Failed("ErrShortRead")
    ELSE LET length == Uint32(Slice(f, off + crcSize, lenSize))
             n == 256 * length[3] + length[4]
             trailerOffset == headerSize + n
             total == recordSize(n)
         IN
      IF Len(f) - off < trailerOffset + trailerSize THEN Failed("ErrShortRead")
      ELSE IF Uint64(Slice(f, off + trailerOffset, trailerSize)) # trailerMagic
           THEN Failed("ErrIncompleteRecord")
      ELSE IF lengthInvalid(length) THEN Failed("ErrInvalidLength")
      ELSE IF Len(f) - off < total THEN Failed("ErrShortRead")
      ELSE IF crcMismatch(Slice(f, off, total)) THEN Failed("ErrCorrupt")
      ELSE [err |-> "ok", payload |-> Slice(f, off + headerSize, n),
            size |-> total]

\* Decode of the record that starts at file offset off:
\* 1. read header  2. validate length  3. verify trailer  4. check CRC
\* 5. advance to the next aligned offset
Decode(f, off) ==
    IF Len(f) - off < headerSize THEN Failed("ErrShortRead")
    ELSE LET length == Uint32(Slice(f, off + crcSize, lenSize)) IN
      IF lengthInvalid(length) THEN Failed("ErrInvalidLength")
      ELSE LET n == 256 * length[3] + length[4]
               trailerOffset == headerSize + n
               total == recordSize(n)
           IN
        IF Len(f) - off < trailerOffset + trailerSize THEN Failed("ErrShortRead")
        ELSE IF Uint64(Slice(f, off + trailerOffset, trailerSize)) # trailerMagic
             THEN Failed("ErrIncompleteRecord")
        ELSE IF Len(f) - off < total THEN Failed("ErrShortRead")
        ELSE IF crcMismatch(Slice(f, off, total)) THEN Failed("ErrCorrupt")
        ELSE [err |-> "ok", payload |-> Slice(f, off + headerSize, n),
              size |-> total]

(* -------------------------------- Scan --------------------------------- *)

\* terminal state of a scan that stopped on Decode error e
Stopped(e) == IF e = "ErrShortRead" THEN "Stopped-Clean" ELSE "Stopped-Corrupt"

\* the record Decode returned at offset pos
Rec(pos, d) == [offset |-> pos, payload |-> d.payload, size |-> d.size]

\* the result of a scan that stopped at offset pos on Decode error e
StopAt(recs, pos, e) ==
    [records |-> recs, safeOffset |-> pos, err |-> e, state |-> Stopped(e)]

\* variant of ScanFrom: a short read reports the file size as safe offset
RECURSIVE ScanFromEOF(_, _, _)
ScanStepEOF(fl, pos, recs, d) ==
    IF d.err = "ok"
    THEN ScanFromEOF(fl, pos + d.size, Append(recs, Rec(pos, d)))
    ELSE StopAt(recs, IF d.err = "ErrShortRead" THEN Len(fl) ELSE pos, d.err)

ScanFromEOF(fl, pos, recs) == ScanStepEOF(fl, pos, recs, Decode(fl, pos))

\* variant of ScanFrom: a failing record is skipped and the scan goes on at
\* the next aligned offset
RECURSIVE ScanFromSkip(_, _, _)
ScanStepSkip(fl, pos, recs, d) ==
    IF d.err = "ok"
    THEN ScanFromSkip(fl, pos + d.size, Append(recs, Rec(pos, d)))
    ELSE IF d.err # "ErrShortRead"
    THEN ScanFromSkip(fl, pos + 8, recs)
    ELSE StopAt(recs, pos, d.err)

ScanFromSkip(fl, pos, recs) == ScanStepSkip(fl, pos, recs, Decode(fl, pos))

\* recovery walks the file sequentially and stops at the first failure:
\* d is what Decode returned at offset pos
RECURSIVE ScanFrom(_, _, _)
ScanStep(fl, pos, recs, d) ==
    IF d.err = "ok"
    THEN ScanFrom(fl, pos + d.size, Append(recs, Rec(pos, d)))
    ELSE StopAt(recs, pos, d.err)

ScanFrom(fl, pos, recs) == ScanStep(fl, pos, recs, Decode(fl, pos))

Scan(contents) == ScanFrom(contents, 0, <<>>)

\* payloads of a sequence of records, in order
Payloads(recs) == [i \in 1..Len(recs) |-> recs[i].payload]

(* ------------------------------- state --------------------------------- *)

VARIABLES
    file,      \* the bytes of the log file on stable storage
    handle,    \* "none" (no writer), "open" or "closed"
    woffset,   \* the Writer's current append offset
    hist,      \* Append calls that wrote: [payload, offset, status]
    last,      \* the last operation and what it returned
    faulted,   \* a storage fault was injected into the file
    scanner    \* the scan in progress: [state, pos, records, err]

vars == <<file, handle, woffset, hist, last, faulted, scanner>>

\* payloads the model appends: the prefixes of the trailer bytes of every
\* length up to one past the maximum
PayloadOfLen(n) == SubSeq(PutUint64(trailerMagic), 1, n)

PayloadSet == {PayloadOfLen(n) : n \in 0..(MaxPayload + 1)}

NoOp == [op |-> "none", err |-> "ok", payload |-> <<>>, offset |-> 0, at |-> 0,
         bit |-> 0, cut |-> FALSE, records |-> <<>>, stop |-> "none"]

\* no scan is in progress
ScanIdle == [state |-> "Idle", pos |-> 0, records |-> <<>>, err |-> "ok"]

Init ==
    /\ file = <<>>
    /\ handle = "none"
    /\ woffset = 0
    /\ hist = <<>>
    /\ last = NoOp
    /\ faulted = FALSE
    /\ scanner = ScanIdle

\* the file after writing bytes at offset pos (pos <= Len(f))
WriteAt(f, pos, bytes) ==
    SubSeq(f, 1, pos) \o bytes
        \o SubSeq(f, pos + Len(bytes) + 1, Len(f))

(* ------------------------------- Writer -------------------------------- *)

\* variant of Open: the file is not truncated and appends go to its end
OpenNoTruncate ==
    /\ handle # "open"
    /\ file' = file
    /\ woffset' = Len(file)
    /\ last' = [NoOp EXCEPT !.op = "Open", !.offset = Len(file)]
    /\ handle' = "open"
    /\ UNCHANGED <<hist, faulted, scanner>>

\* variant of Open: the append offset is the file size before truncation
OpenStaleOffset ==
    /\ handle # "open"
    /\ \E safeOffset \in {Scan(file).safeOffset} :
        /\ file' = SubSeq(file, 1, safeOffset)
        /\ woffset' = Len(file)
        /\ last' = [NoOp EXCEPT !.op = "Open", !.offset = safeOffset,
                                !.cut = (safeOffset < Len(file))]
    /\ handle' = "open"
    /\ UNCHANGED <<hist, faulted, scanner>>

\* Open: run recovery, truncate to the last known-good position, position
\* for append
Open ==
    /\ handle # "open"
    /\ \E safeOffset \in {Scan(file).safeOffset} :
        /\ file' = SubSeq(file, 1, safeOffset)
        /\ woffset' = safeOffset
        /\ last' = [NoOp EXCEPT !.op = "Open", !.offset = safeOffset,
                                !.cut = (safeOffset < Len(file))]
    /\ handle' = "open"
    /\ UNCHANGED <<hist, faulted, scanner>>

\* variant of payloadTooLarge: the bound is off by one
payloadTooLargeOffByOne(payload) == Len(payload) > MaxPayload + 1

\* len(payload) > max
payloadTooLarge(payload) == Len(payload) > MaxPayload

\* the encoded record of every payload of the model, computed once
encodedTable ==
    TableOf([n \in 0..(MaxPayload + 1) |-> Encode(PayloadOfLen(n))],
            0, MaxPayload + 1)

\* Encode(payload) for a payload of PayloadSet
encoded(payload) == encodedTable[Len(payload) + 1]

\* variant of AppendRec: the append offset advances by the unpadded size
AppendRecUnpadded(payload) ==
    /\ handle = "open"
    /\ Len(hist) < MaxAppends
    /\ IF payloadTooLarge(payload)
       THEN /\ last' = [NoOp EXCEPT !.op = "Append", !.payload = payload,
                                    !.err = "ErrPayloadTooLarge"]
            /\ UNCHANGED <<file, woffset, hist>>
       ELSE /\ file' = WriteAt(file, woffset, encoded(payload))
            /\ woffset' = woffset + headerSize + Len(payload) + trailerSize
            /\ hist' = Append(hist, [payload |-> payload, offset |-> woffset,
                                     status |-> "ok"])
            /\ last' = [NoOp EXCEPT !.op = "Append", !.payload = payload,
                                    !.offset = woffset]
    /\ UNCHANGED <<handle, faulted, scanner>>

\* variant of AppendRec: the append offset stays where it was
AppendRecNoAdvance(payload) ==
    /\ handle = "open"
    /\ Len(hist) < MaxAppends
    /\ IF payloadTooLarge(payload)
       THEN /\ last' = [NoOp EXCEPT !.op = "Append", !.payload = payload,
                                    !.err = "ErrPayloadTooLarge"]
            /\ UNCHANGED <<file, woffset, hist>>
       ELSE /\ file' = WriteAt(file, woffset, encoded(payload))
            /\ woffset' = woffset
            /\ hist' = Append(hist, [payload |-> payload, offset |-> woffset,
                                     status |-> "ok"])
            /\ last' = [NoOp EXCEPT !.op = "Append", !.payload = payload,
                                    !.offset = woffset]
    /\ UNCHANGED <<handle, faulted, scanner>>

\* Append(payload): reject an oversized payload, else write the encoded
\* record at the append offset, sync, and return the record's offset
AppendRec(payload) ==
    /\ handle = "open"
    /\ Len(hist) < MaxAppends
    /\ IF payloadTooLarge(payload)
       THEN /\ last' = [NoOp EXCEPT !.op = "Append", !.payload = payload,
                                    !.err = "ErrPayloadTooLarge"]
            /\ UNCHANGED <<file, woffset, hist>>
       ELSE /\ file' = WriteAt(file, woffset, encoded(payload))
            /\ woffset' = woffset + Len(encoded(payload))
            /\ hist' = Append(hist, [payload |-> payload, offset |-> woffset,
                                     status |-> "ok"])
            /\ last' = [NoOp EXCEPT !.op = "Append", !.payload = payload,
                                    !.offset = woffset]
    /\ UNCHANGED <<handle, faulted, scanner>>

\* what a crash in the middle of writing the encoded record enc can leave:
\* a prefix of it, or the whole extent with some of its 8-byte blocks
\* still zero
TornWrites(enc) ==
    {SubSeq(enc, 1, k) : k \in 0..Len(enc)}
    \cup {[i \in 1..Len(enc) |-> IF ((i - 1) \div 8) \in blocks THEN enc[i] ELSE 0] :
            blocks \in SUBSET (0..((Len(enc) \div 8) - 1))}

\* how much of the encoded record enc the torn write left in the file
TornStatus(torn, enc) ==
    IF torn = enc THEN "full" ELSE IF torn = <<>> THEN "lost" ELSE "torn"

\* the process crashes halfway through the write of Append(payload): the
\* call never returns and the Writer is gone
AppendCrash(payload) ==
    /\ handle = "open"
    /\ Len(hist) < MaxAppends
    /\ Cardinality({i \in 1..Len(hist) : hist[i].status # "ok"}) < MaxCrashes
    /\ ~payloadTooLarge(payload)
    /\ \E torn \in TornWrites(encoded(payload)) :
        /\ file' = WriteAt(file, woffset, torn)
        /\ hist' = Append(hist, [payload |-> payload, offset |-> woffset,
                                 status |-> TornStatus(torn, encoded(payload))])
        /\ last' = [NoOp EXCEPT !.op = "Crash", !.payload = payload,
                                !.offset = woffset, !.at = Len(torn)]
    /\ handle' = "none"
    /\ UNCHANGED <<woffset, faulted, scanner>>

\* variant of AppendClosed: the closed handle still writes
AppendClosedWrites(payload) ==
    /\ handle = "closed"
    /\ Len(hist) < MaxAppends
    /\ ~payloadTooLarge(payload)
    /\ file' = WriteAt(file, woffset, encoded(payload))
    /\ woffset' = woffset + Len(encoded(payload))
    /\ hist' = Append(hist, [payload |-> payload, offset |-> woffset,
                             status |-> "ok"])
    /\ last' = [NoOp EXCEPT !.op = "Append", !.payload = payload,
                            !.offset = woffset]
    /\ UNCHANGED <<handle, faulted, scanner>>

\* Append(payload) on a handle that Close has released: no write is accepted
AppendClosed(payload) ==
    /\ handle = "closed"
    /\ last' = [NoOp EXCEPT !.op = "Append", !.payload = payload,
                            !.err = "ErrClosed"]
    /\ UNCHANGED <<file, handle, woffset, hist, faulted, scanner>>

\* Close(handle): releases the file
Close ==
    /\ handle = "open"
    /\ handle' = "closed"
    /\ last' = [NoOp EXCEPT !.op = "Close"]
    /\ UNCHANGED <<file, woffset, hist, faulted, scanner>>

(* --------------------------- storage faults --------------------------- *)

\* the file at rest is cut at byte offset cut
Truncate(cut) ==
    /\ handle # "open"
    /\ ~faulted
    /\ Len(hist) <= MaxFaultLog
    /\ cut \in 0..(Len(file) - 1)
    /\ file' = SubSeq(file, 1, cut)
    /\ last' = [NoOp EXCEPT !.op = "Truncate", !.at = cut]
    /\ faulted' = TRUE
    /\ UNCHANGED <<handle, woffset, hist, scanner>>

\* one bit of the byte at offset pos of the file at rest is flipped
FlipBit(pos, bit) ==
    /\ handle # "open"
    /\ ~faulted
    /\ Len(hist) <= MaxFaultLog
    /\ pos \in 0..(Len(file) - 1)
    /\ file' = [file EXCEPT ![pos + 1] = Xor8(@, 2 ^ bit)]
    /\ last' = [NoOp EXCEPT !.op = "FlipBit", !.at = pos, !.bit = bit]
    /\ faulted' = TRUE
    /\ UNCHANGED <<handle, woffset, hist, scanner>>

\* the 8 trailer bytes of the k-th record of the file at rest are zeroed
ZeroTrailer(k) ==
    /\ handle # "open"
    /\ ~faulted
    /\ Len(hist) <= MaxFaultLog
    /\ \E recs \in {Scan(file).records} :
        /\ k \in 1..Len(recs)
        /\ file' = WriteAt(file, recs[k].offset + headerSize + Len(recs[k].payload),
                           Zeros(trailerSize))
        /\ last' = [NoOp EXCEPT !.op = "ZeroTrailer", !.at = recs[k].offset]
    /\ faulted' = TRUE
    /\ UNCHANGED <<handle, woffset, hist, scanner>>

FileOffsets == 0..(recordSize(MaxPayload) * MaxAppends)

Next ==
    \/ Open
    \/ \E payload \in PayloadSet : AppendRec(payload)
    \/ \E payload \in PayloadSet : AppendCrash(payload)
    \/ Close

Spec == Init /\ [][Next]_vars

\* the Writer's operations, calls on a closed handle included
NextClosed ==
    \/ Open
    \/ \E payload \in PayloadSet : AppendRec(payload)
    \/ \E payload \in PayloadSet : AppendCrash(payload)
    \/ Close
    \/ \E payload \in PayloadSet : AppendClosed(payload)

SpecClosed == Init /\ [][NextClosed]_vars

\* the Writer's operations together with faults of the storage
NextFault ==
    \/ Open
    \/ \E payload \in PayloadSet : AppendRec(payload)
    \/ Close
    \/ \E cut \in FileOffsets : Truncate(cut)
    \/ \E pos \in FileOffsets, bit \in 0..7 : FlipBit(pos, bit)
    \/ \E k \in 1..MaxAppends : ZeroTrailer(k)

SpecFault == Init /\ [][NextFault]_vars

(* ------------------------- Scan, step by step -------------------------- *)

\* Scan(path) is called on a file no Writer holds open: start at offset 0
ScanBegin ==
    /\ scanner.state = "Idle"
    /\ handle # "open"
    /\ scanner' = [ScanIdle EXCEPT !.state = "Scanning"]
    /\ UNCHANGED <<file, handle, woffset, hist, last, faulted>>

\* variant of ScanDecode: the offset is not advanced behind a decoded record
ScanDecodeNoAdvance ==
    /\ scanner.state = "Scanning"
    /\ \E d \in {Decode(file, scanner.pos)} :
        scanner' = IF d.err = "ok"
                   THEN [scanner EXCEPT !.records = Append(@, Rec(scanner.pos, d))]
                   ELSE [scanner EXCEPT !.state = Stopped(d.err), !.err = d.err]
    /\ UNCHANGED <<file, handle, woffset, hist, last, faulted>>

\* variant of ScanDecode: the scanner itself cuts the file where it stops
ScanDecodeTruncates ==
    /\ scanner.state = "Scanning"
    /\ \E d \in {Decode(file, scanner.pos)} :
        /\ scanner' = IF d.err = "ok"
                      THEN [scanner EXCEPT !.pos = @ + d.size,
                                           !.records = Append(@, Rec(scanner.pos, d))]
                      ELSE [scanner EXCEPT !.state = Stopped(d.err), !.err = d.err]
        /\ file' = IF d.err = "ok" THEN file ELSE SubSeq(file, 1, scanner.pos)
    /\ UNCHANGED <<handle, woffset, hist, last, faulted>>

\* one turn of the loop: attempt Decode at the current offset; on success
\* keep the record and advance by its on-disk size, on failure stop
ScanDecode ==
    /\ scanner.state = "Scanning"
    /\ \E d \in {Decode(file, scanner.pos)} :
        scanner' = IF d.err = "ok"
                   THEN [scanner EXCEPT !.pos = @ + d.size,
                                        !.records = Append(@, Rec(scanner.pos, d))]
                   ELSE [scanner EXCEPT !.state = Stopped(d.err), !.err = d.err]
    /\ UNCHANGED <<file, handle, woffset, hist, last, faulted>>

\* variant of ScanReturn: the error that stopped the loop is returned
ScanReturnPropagates ==
    /\ scanner.state \in {"Stopped-Clean", "Stopped-Corrupt"}
    /\ last' = [NoOp EXCEPT !.op = "Scan", !.offset = scanner.pos,
                            !.records = scanner.records, !.stop = scanner.state,
                            !.err = scanner.err]
    /\ scanner' = ScanIdle
    /\ UNCHANGED <<file, handle, woffset, hist, faulted>>

\* the stopped scan returns (records, safeOffset) to its caller
ScanReturn ==
    /\ scanner.state \in {"Stopped-Clean", "Stopped-Corrupt"}
    /\ last' = [NoOp EXCEPT !.op = "Scan", !.offset = scanner.pos,
                            !.records = scanner.records, !.stop = scanner.state]
    /\ scanner' = ScanIdle
    /\ UNCHANGED <<file, handle, woffset, hist, faulted>>

\* scans of files at rest, between the Writer's operations and the faults
NextScan ==
    \/ scanner.state = "Idle" /\ Open
    \/ scanner.state = "Idle" /\ \E payload \in PayloadSet : AppendRec(payload)
    \/ scanner.state = "Idle" /\ Close
    \/ scanner.state = "Idle" /\ \E cut \in FileOffsets : Truncate(cut)
    \/ scanner.state = "Idle" /\ \E pos \in FileOffsets : FlipBit(pos, 0)
    \/ scanner.state = "Idle" /\ \E k \in 1..MaxAppends : ZeroTrailer(k)
    \/ ScanBegin
    \/ ScanDecode
    \/ ScanReturn

\* a scan is a sequential call: once started it runs to its return
SpecScan ==
    Init /\ [][NextScan]_vars /\ WF_vars(ScanDecode) /\ WF_vars(ScanReturn)

(* --------------------------- the Record Codec -------------------------- *)

\* Encode(payload) into an empty buffer: an oversized payload is rejected
EncodeRecord(payload) ==
    /\ handle = "none"
    /\ file = <<>>
    /\ ~faulted
    /\ IF payloadTooLarge(payload)
       THEN /\ last' = [NoOp EXCEPT !.op = "Encode", !.payload = payload,
                                    !.err = "ErrPayloadTooLarge"]
            /\ UNCHANGED <<file, hist>>
       ELSE /\ file' = encoded(payload)
            /\ hist' = <<[payload |-> payload, offset |-> 0, status |-> "ok"]>>
            /\ last' = [NoOp EXCEPT !.op = "Encode", !.payload = payload,
                                    !.offset = Len(encoded(payload))]
    /\ UNCHANGED <<handle, woffset, faulted, scanner>>

\* the buffer holds a well-formed record longer than the configured maximum,
\* as a Writer configured with a larger maximum writes it
ForeignRecord(payload) ==
    /\ handle = "none"
    /\ file = <<>>
    /\ ~faulted
    /\ payloadTooLarge(payload)
    /\ file' = encoded(payload)
    /\ hist' = <<[payload |-> payload, offset |-> 0, status |-> "ok"]>>
    /\ last' = [NoOp EXCEPT !.op = "Foreign", !.payload = payload,
                            !.offset = Len(encoded(payload))]
    /\ UNCHANGED <<handle, woffset, faulted, scanner>>

\* Decode at offset 0 of the buffer; the result keeps the error, the payload
\* and the consumed byte count
DecodeRecord ==
    /\ handle = "none"
    /\ \E d \in {Decode(file, 0)} :
        last' = [NoOp EXCEPT !.op = "Decode", !.err = d.err,
                             !.payload = d.payload, !.offset = d.size]
    /\ UNCHANGED <<file, handle, woffset, hist, faulted, scanner>>

\* the codec applied to encoded records, whole, cut short or with a bit
\* flipped
NextCodec ==
    \/ \E payload \in PayloadSet : EncodeRecord(payload)
    \/ \E payload \in PayloadSet : ForeignRecord(payload)
    \/ \E cut \in FileOffsets : Truncate(cut)
    \/ \E pos \in FileOffsets, bit \in 0..7 : FlipBit(pos, bit)
    \/ DecodeRecord

SpecCodec == Init /\ [][NextCodec]_vars

(* ------------------------------ properties ----------------------------- *)

\* the records a scan of the current file returns
Recs == Scan(file).records

\* a is a prefix of b
IsPrefix(a, b) == Len(a) <= Len(b) /\ a = SubSeq(b, 1, Len(a))

\* the Append calls whose record reached the file in full
Persisted == SelectSeq(hist, LAMBDA h : h.status \in {"ok", "full"})

\* end offset of the last record of recs (0 when there is none)
EndOfLast(recs) ==
    IF recs = <<>> THEN 0
    ELSE recs[Len(recs)].offset + recs[Len(recs)].size

\* C1 (durability): a scan of the file returns, at the offset Append
\* returned and with the payload appended, every record whose Append
\* returned success; scanned records are in append order, and the only
\* Append calls whose record is missing are those in flight at a crash.
Durability ==
    \A recs \in {Recs} :
      /\ \A i \in 1..Len(hist) :
            hist[i].status = "ok" =>
              \E j \in 1..Len(recs) :
                /\ recs[j].offset = hist[i].offset
                /\ recs[j].payload = hist[i].payload
      /\ \A i, j \in 1..Len(hist) :
            (i < j /\ hist[i].status = "ok" /\ hist[j].status = "ok")
              => hist[i].offset < hist[j].offset
      /\ \A i, j \in 1..Len(recs) : i < j => recs[i].offset < recs[j].offset
      /\ Len(hist) - Len(recs)
            <= Cardinality({i \in 1..Len(hist) : hist[i].status # "ok"})

\* C1 witness: a crash left a torn tail behind acknowledged records
DurabilityWitness ==
    /\ last.op = "Crash"
    /\ Len(hist) >= 2
    /\ hist[1].status = "ok"
    /\ hist[Len(hist)].status = "torn"
    /\ last.at > headerSize
    /\ Len(Recs) = Len(hist) - 1

\* C2 as stated: the payloads a scan returns are a prefix of the payloads
\* passed to Append.
ScanIsPrefixOfAppended ==
    IsPrefix(Payloads(Recs), Payloads(hist))

\* C2 amended (no phantom, no altered record): the records a scan returns
\* are exactly the fully persisted records, in append order, each at its
\* offset and with the payload appended; a torn record is never returned.
NoPhantomNoAltered ==
    \A recs \in {Recs}, kept \in {Persisted} :
      /\ Len(recs) = Len(kept)
      /\ \A i \in 1..Len(recs) :
            /\ recs[i].payload = kept[i].payload
            /\ recs[i].offset = kept[i].offset

\* C2 witness: an Append succeeded after a torn record was recovered over
NoPhantomWitness ==
    /\ Len(hist) = 3
    /\ hist[1].status = "ok"
    /\ hist[2].status = "torn"
    /\ hist[3].status = "ok"
    /\ hist[2].payload # hist[3].payload
    /\ Len(Recs) = 2

\* the scan sc found every byte of file f in a valid record
FullyWritten(f, sc) == sc.safeOffset = Len(f)

\* C3 (truncation safety): truncating a fully written log at an offset
\* strictly inside record k makes a scan return exactly records 1..k-1 and
\* the end offset of record k-1 (the start of record k; 0 when k = 1).
TruncationSafety ==
    [][(last'.op = "Truncate" /\ ~faulted) =>
         \A before \in {Scan(file)}, new \in {Scan(file')}, cut \in {last'.at} :
           \A old \in {before.records} :
             FullyWritten(file, before) =>
               \A k \in 1..Len(old) :
                 (old[k].offset < cut /\ cut < old[k].offset + old[k].size) =>
                   /\ new.records = SubSeq(old, 1, k - 1)
                   /\ new.safeOffset = old[k].offset
                   /\ new.safeOffset = EndOfLast(SubSeq(old, 1, k - 1))]_vars

\* C3 witness: the second record of a log was cut inside its padding
TruncationWitness ==
    /\ last.op = "Truncate"
    /\ Len(hist) = 2
    /\ last.at >= hist[2].offset + headerSize + Len(hist[2].payload) + trailerSize
    /\ last.at < hist[2].offset + recordSize(Len(hist[2].payload))
    /\ Len(Recs) = 1
    /\ Scan(file).safeOffset = hist[2].offset

\* byte offset pos lies in the checksum, length or payload field of record r
InCheckedFields(r, pos) ==
    r.offset <= pos /\ pos < r.offset + headerSize + Len(r.payload)

\* byte offset pos lies in the length field of record r
InLengthField(r, pos) ==
    r.offset + crcSize <= pos /\ pos < r.offset + headerSize

MissingTrailerIncomplete ==
    [][(last'.op = "ZeroTrailer" /\ ~faulted) =>
         \A old \in {Scan(file).records}, new \in {Scan(file')} :
           \A k \in 1..Len(old) :
             old[k].offset = last'.at =>
               /\ new.err = "ErrIncompleteRecord"
               /\ new.safeOffset = old[k].offset
               /\ new.records = SubSeq(old, 1, k - 1)]_vars

\* C5 witness: the trailer of the second record was zeroed
MissingTrailerWitness ==
    /\ last.op = "ZeroTrailer"
    /\ Len(hist) = 2
    /\ last.at = hist[2].offset
    /\ last.at > 0
    /\ Scan(file).err = "ErrIncompleteRecord"
    /\ Len(Recs) = 1

\* C6 (resume after crash): when the file holds valid records followed by
\* the tail of a crashed Append, Open truncates it to the end of the last
\* valid record; every later Append of a valid payload succeeds, and a
\* fresh scan then returns the records scanned before it followed by the
\* appended record.
ResumeAfterCrash ==
    [][/\ (last'.op = "Open" /\ last.op = "Crash") =>
            \A old \in {Scan(file).records}, new \in {Scan(file').records} :
              /\ Len(file') = EndOfLast(old)
              /\ new = old
       /\ (last'.op = "Append" /\ Len(last'.payload) <= MaxPayload) =>
            \A old \in {Scan(file).records}, new \in {Scan(file').records} :
              /\ last'.err = "ok"
              /\ last'.offset = EndOfLast(old)
              /\ Payloads(new) = Append(Payloads(old), last'.payload)]_vars

\* C6 witness: A, torn B, Open, Append D scans as [A, D]
ResumeWitness ==
    /\ last.op = "Append"
    /\ last.err = "ok"
    /\ Len(hist) = 3
    /\ hist[1].status = "ok"
    /\ hist[2].status = "torn"
    /\ hist[3].status = "ok"
    /\ hist[3].offset = hist[2].offset
    /\ Payloads(Recs) = <<hist[1].payload, hist[3].payload>>

\* C7 (Open truncates only the tail): after Open the file length and the
\* Writer's append offset equal the safeOffset a scan computes for the
\* file as it was before Open, and the bytes below it are unchanged.
OpenTruncatesTail ==
    [][last'.op = "Open" =>
         \A safe \in {Scan(file).safeOffset} :
           /\ Len(file') = safe
           /\ woffset' = safe
           /\ handle' = "open"
           /\ SubSeq(file', 1, safe) = SubSeq(file, 1, safe)]_vars

\* C7 witness: Open cut a damaged tail off a file and kept a record
OpenTruncatesWitness ==
    /\ last.op = "Open"
    /\ faulted
    /\ last.cut
    /\ last.offset > 0
    /\ Len(file) = last.offset
    /\ Len(Recs) >= 1

\* C8 (oversized payload): Append of a payload longer than the maximum
\* returns ErrPayloadTooLarge and leaves the file, its length, the append
\* offset and the handle as they were.
OversizedRejected ==
    [][(last'.op = "Append" /\ Len(last'.payload) > MaxPayload) =>
         /\ last'.err = "ErrPayloadTooLarge"
         /\ file' = file
         /\ woffset' = woffset
         /\ handle' = handle
         /\ hist' = hist]_vars

\* C8 witness: an oversized Append was rejected on a log that holds a record
OversizedWitness ==
    /\ last.op = "Append"
    /\ last.err = "ErrPayloadTooLarge"
    /\ Len(last.payload) = MaxPayload + 1
    /\ Len(Recs) >= 1
    /\ woffset = Len(file)

\* C9 (safeOffset): for every file the safeOffset of a scan is the end
\* offset of the last valid record (0 when there is none), a multiple of 8,
\* at most the file length, and at most the offset of the first failing
\* record: Decode fails at safeOffset, and no damaged byte lies below it.
SafeOffsetInvariant ==
    \A sc \in {Scan(file)} :
      /\ sc.safeOffset = EndOfLast(sc.records)
      /\ sc.safeOffset % 8 = 0
      /\ sc.safeOffset <= Len(file)
      /\ Decode(file, sc.safeOffset).err # "ok"
      /\ (faulted /\ last.op \in {"Truncate", "FlipBit", "ZeroTrailer"}) =>
            sc.safeOffset <= last.at
      /\ file = <<>> => (sc.records = <<>> /\ sc.safeOffset = 0)

\* C9 witness: a damaged file whose scan keeps one record
SafeOffsetWitness ==
    /\ faulted
    /\ last.op = "FlipBit"
    /\ Len(Recs) = 1
    /\ Scan(file).safeOffset > 0
    /\ Scan(file).safeOffset < Len(file)

\* C10 (no skip-forward): once Decode fails at the offset of a record of
\* the log, a scan returns only records located before that offset, even
\* when a later record is still valid byte for byte.
NoSkipForward ==
    [][(faulted' /\ ~faulted) =>
         \A old \in {Scan(file).records}, new \in {Scan(file').records} :
           \A k \in 1..Len(old) :
             Decode(file', old[k].offset).err # "ok" =>
               \A j \in 1..Len(new) : new[j].offset < old[k].offset]_vars

\* C10 witness: the first record is damaged, the second would decode cleanly
NoSkipForwardWitness ==
    /\ faulted
    /\ last.op \in {"FlipBit", "ZeroTrailer"}
    /\ Len(hist) = 2
    /\ Decode(file, hist[1].offset).err \in {"ErrCorrupt", "ErrIncompleteRecord",
                                             "ErrInvalidLength"}
    /\ Decode(file, hist[2].offset).err = "ok"
    /\ Recs = <<>>

(* --------------------------- scans, step by step ------------------------ *)

\* a step of the scanner: it starts, decodes once, or returns
ScanStepTaken == scanner' # scanner

ValidationErrors ==
    {"ErrShortRead", "ErrInvalidLength", "ErrIncompleteRecord", "ErrCorrupt"}

\* C12 (validation errors are resolved locally): Scan and Open never return
\* ErrShortRead, ErrInvalidLength, ErrIncompleteRecord or ErrCorrupt, whatever
\* stopped the scanner's loop; ErrPayloadTooLarge is returned, and only by an
\* Append of an oversized payload.
ErrorsResolvedLocally ==
    /\ last.op \in {"Scan", "Open"} => last.err = "ok"
    /\ last.err \notin ValidationErrors
    /\ last.err = "ErrPayloadTooLarge" => /\ last.op = "Append"
                                          /\ payloadTooLarge(last.payload)
    /\ scanner.state \in {"Stopped-Clean", "Stopped-Corrupt"}
         => scanner.err \in ValidationErrors

\* C12 witness: a scan whose loop was stopped by ErrCorrupt behind a valid
\* record has returned
ErrorsResolvedWitness ==
    /\ last.op = "Scan"
    /\ last.stop = "Stopped-Corrupt"
    /\ Len(last.records) >= 1
    /\ Decode(file, last.offset).err = "ErrCorrupt"

(* ------------------------------- Close --------------------------------- *)

\* C13 (no writes after Close): once Close has returned, every Append on
\* the closed handle is refused, and as long as the handle stays closed the
\* file's contents and length, the append offset and the log of appends
\* never change.
ClosedRefusesAppends ==
    [][handle = "closed" =>
         /\ last'.op = "Append" => (last'.err # "ok" /\ handle' = "closed")
         /\ handle' = "closed" => UNCHANGED <<file, woffset, hist>>]_vars

\* C13 witness: an Append of a payload of legal size on a closed handle
\* behind a written record was refused
ClosedRefusesWitness ==
    /\ handle = "closed"
    /\ last.op = "Append"
    /\ last.err = "ErrClosed"
    /\ ~payloadTooLarge(last.payload)
    /\ Len(hist) >= 1
    /\ Len(file) = woffset

(* --------------------------- the Record Codec -------------------------- *)

\* the payload of the record the buffer was encoded from
Encoded == hist[1].payload

\* C14 (round trip and alignment): for every payload p of at most the
\* maximum length, Decode at offset 0 of Encode(p) returns p and consumes
\* len(Encode(p)) bytes, and that count is the smallest multiple of 8 that is
\* at least headerSize + len(p) + trailerSize: alignUp, for every size up to
\* that of the largest record, returns a multiple of 8 that adds 0 to 7.
RoundTripAligned ==
    /\ \A n \in 0..recordSize(MaxPayload) :
         /\ alignUp(n) % 8 = 0
         /\ alignUp(n) - n \in 0..7
    /\ (last.op = "Encode" /\ last.err = "ok") =>
         /\ last.offset = Len(file)
         /\ Len(file) % 8 = 0
         /\ Len(file) - (headerSize + Len(last.payload) + trailerSize) \in 0..7
    /\ (last.op = "Decode" /\ ~faulted /\ hist # <<>> /\ ~payloadTooLarge(Encoded)) =>
         /\ last.err = "ok"
         /\ last.payload = Encoded
         /\ last.offset = Len(file)
         /\ last.offset % 8 = 0
         /\ last.offset - (headerSize + Len(Encoded) + trailerSize) \in 0..7

\* C14 witness: a padded record of a payload of the maximum length was
\* decoded
RoundTripWitness ==
    /\ last.op = "Decode"
    /\ ~faulted
    /\ hist # <<>>
    /\ Len(Encoded) = MaxPayload
    /\ last.payload = Encoded
    /\ last.offset > headerSize + Len(Encoded) + trailerSize

\* the four bytes of the length field of the record at the start of buffer f
LengthBytes(f) == Slice(f, crcSize, lenSize)

\* the length field of buffer f is at most the configured maximum
LengthInBound(f) ==
    \E b \in {LengthBytes(f)} :
        b[4] = 0 /\ b[3] = 0 /\ b[1] + 256 * b[2] <= MaxPayload

\* the payload length the length field of buffer f gives, modulo 2^16
LengthLow(f) == LengthBytes(f)[1] + 256 * LengthBytes(f)[2]

\* buffer f holds the header, the payload and the trailer of its record
PartsPresent(f) ==
    /\ Len(f) >= headerSize
    /\ Len(f) >= headerSize + LengthLow(f) + trailerSize

\* the eight bytes where the length field of buffer f places the trailer
TrailerBytes(f) == Slice(f, headerSize + LengthLow(f), trailerSize)

\* the sentinel as it lies on disk
Sentinel == <<206, 250, 237, 254, 239, 190, 173, 222>>

\* C15 (validation order): Decode validates the length bound, then the
\* trailer, then the checksum: a length field above the maximum gives
\* ErrInvalidLength whatever the other bytes are; with a length in bound, a
\* trailer that differs from the sentinel gives ErrIncompleteRecord, whether
\* or not the checksum matches or the padding is there; ErrCorrupt is only
\* returned for a length in bound and an exact trailer.
ValidationOrder ==
    Len(file) >= headerSize =>
      \A e \in {Decode(file, 0).err} :
        /\ ~LengthInBound(file) => e = "ErrInvalidLength"
        /\ (LengthInBound(file) /\ PartsPresent(file) /\ TrailerBytes(file) # Sentinel)
             => e = "ErrIncompleteRecord"
        /\ e = "ErrCorrupt" =>
             (LengthInBound(file) /\ PartsPresent(file) /\ TrailerBytes(file) = Sentinel)

\* C15 witness: Decode returned ErrInvalidLength for a record whose length
\* is above the maximum and whose trailer, all there, is not the sentinel
ValidationOrderWitness ==
    /\ last.op = "Decode"
    /\ last.err = "ErrInvalidLength"
    /\ faulted
    /\ PartsPresent(file)
    /\ LengthLow(file) = Len(Encoded)
    /\ TrailerBytes(file) # Sentinel

\* the end of the record of buffer f: the next 8-byte boundary behind its
\* trailer
RecordEnd(f) == ((headerSize + LengthLow(f) + trailerSize + 7) \div 8) * 8

\* the stored checksum of buffer f equals the checksum of the bytes of its
\* record that follow the checksum field
ChecksumMatches(f) ==
    \E end \in {IF Len(f) < RecordEnd(f) THEN Len(f) ELSE RecordEnd(f)} :
        Slice(f, 0, crcSize) = PutUint32(Checksum(SubSeq(f, crcSize + 1, end)))

\* C16 as claimed (record existence): Decode reports a record if and only if
\* header, payload and trailer are present, the stored checksum matches and
\* the trailer equals the sentinel.
RecordExistsIffPartsValid ==
    (Decode(file, 0).err = "ok")
        <=> (/\ PartsPresent(file)
             /\ TrailerBytes(file) = Sentinel
             /\ ChecksumMatches(file))

\* C16 (record existence, amended): Decode reports a record if and only if
\* the length field is at most the maximum, header, payload, trailer and
\* padding are all present, the trailer equals the sentinel and the stored
\* checksum matches; a well-formed record longer than the maximum and a
\* record cut inside its padding are not reported.
RecordExists ==
    (Decode(file, 0).err = "ok")
        <=> (/\ PartsPresent(file)
             /\ LengthInBound(file)
             /\ Len(file) >= RecordEnd(file)
             /\ TrailerBytes(file) = Sentinel
             /\ ChecksumMatches(file))

\* C16 witness: header, payload and an exact trailer are present but the
\* buffer ends inside the padding, and Decode returned ErrShortRead
RecordExistsWitness ==
    /\ last.op = "Decode"
    /\ last.err = "ErrShortRead"
    /\ PartsPresent(file)
    /\ LengthInBound(file)
    /\ TrailerBytes(file) = Sentinel
    /\ Len(file) < RecordEnd(file)

\* Decode of buffer f gets as far as comparing the checksums
ChecksumReached(f) ==
    /\ PartsPresent(f)
    /\ LengthInBound(f)
    /\ Len(f) >= RecordEnd(f)
    /\ TrailerBytes(f) = Sentinel

\* the stored checksum of buffer f equals the checksum of its length field
\* and payload
LengthPayloadChecksumMatches(f) ==
    Slice(f, 0, crcSize) = PutUint32(Checksum(Slice(f, crcSize, lenSize + LengthLow(f))))

\* C18 as claimed (checksum coverage): Encode stores, and Decode compares
\* with, the checksum of the length field and the payload and of nothing
\* else.
ChecksumCoversLengthPayload ==
    /\ (last.op = "Encode" /\ last.err = "ok") => LengthPayloadChecksumMatches(file)
    /\ ChecksumReached(file) =>
         ((Decode(file, 0).err = "ErrCorrupt") <=> ~LengthPayloadChecksumMatches(file))

\* C18 (checksum coverage, amended): Encode stores, and Decode compares
\* with, the checksum of everything in the record except the checksum field
\* itself: length field, payload, trailer and padding. The verdict of Decode
\* depends on the padding bytes too: one flipped bit in the padding of a
\* record gives ErrCorrupt.
ChecksumCoversAllButItself ==
    /\ (last.op = "Encode" /\ last.err = "ok") =>
         Slice(file, 0, crcSize) = PutUint32(Checksum(SubSeq(file, crcSize + 1, Len(file))))
    /\ ChecksumReached(file) =>
         ((Decode(file, 0).err = "ErrCorrupt") <=> ~ChecksumMatches(file))
    /\ (last.op = "FlipBit" /\ hist # <<>> /\ ~payloadTooLarge(Encoded)
          /\ last.at >= headerSize + Len(Encoded) + trailerSize)
         => Decode(file, 0).err = "ErrCorrupt"

\* C18 witness: a record with one bit of its padding flipped was decoded
\* and found corrupt
ChecksumCoverageWitness ==
    /\ last.op = "Decode"
    /\ last.err = "ErrCorrupt"
    /\ faulted
    /\ ~payloadTooLarge(Encoded)
    /\ Len(file) = RecordEnd(file)
    /\ SubSeq(file, 1, headerSize + Len(Encoded) + trailerSize)
         = SubSeq(encoded(Encoded), 1, headerSize + Len(Encoded) + trailerSize)
    /\ file # encoded(Encoded)

(* ------------------------- the scan state machine ---------------------- *)

StopStates == {"Stopped-Clean", "Stopped-Corrupt"}

\* C17 (scan state machine and termination): a scan starts in Scanning at
\* offset 0; each successful Decode keeps it in Scanning and strictly
\* advances its offset, never beyond the end of the file; a failed Decode
\* stops it where it is, in Stopped-Clean on ErrShortRead and in
\* Stopped-Corrupt on ErrIncompleteRecord or ErrCorrupt; a stopped scan never
\* changes state or offset again, it only returns them; and every scan that
\* is in Scanning eventually stops.
ScanTerminates ==
    /\ [][/\ (scanner.state = "Idle" /\ ScanStepTaken)
             => scanner' = [ScanIdle EXCEPT !.state = "Scanning"]
          /\ (scanner.state = "Scanning" /\ ScanStepTaken)
             => \A d \in {Decode(file, scanner.pos)} :
                  /\ (d.err = "ok") => (/\ scanner'.state = "Scanning"
                                        /\ scanner'.pos > scanner.pos
                                        /\ scanner'.pos <= Len(file))
                  /\ (d.err # "ok") => (/\ scanner'.state \in StopStates
                                        /\ scanner'.pos = scanner.pos)
                  /\ (d.err = "ErrShortRead") => (scanner'.state = "Stopped-Clean")
                  /\ (d.err \in {"ErrIncompleteRecord", "ErrCorrupt"})
                       => (scanner'.state = "Stopped-Corrupt")
          /\ (scanner.state \in StopStates /\ ScanStepTaken)
             => (/\ scanner'.state = "Idle"
                 /\ last'.op = "Scan"
                 /\ last'.stop = scanner.state
                 /\ last'.offset = scanner.pos)]_vars
    /\ (scanner.state = "Scanning") ~> (scanner.state \in StopStates)

\* C17 witness: a scan advanced over a record and then stopped in
\* Stopped-Corrupt on the damaged record behind it
ScanTerminatesWitness ==
    /\ scanner.state = "Stopped-Corrupt"
    /\ Len(scanner.records) = 1
    /\ scanner.pos = scanner.records[1].offset + scanner.records[1].size
    /\ scanner.pos > 0
    /\ scanner.pos < Len(file)
    /\ scanner.err \in {"ErrIncompleteRecord", "ErrCorrupt"}

(* ------------------------------ the Writer ----------------------------- *)

\* an Append call returned without error in this step
AppendSucceeded ==
    /\ handle = "open"
    /\ Len(hist') = Len(hist) + 1
    /\ last'.op = "Append"
    /\ last'.err = "ok"

\* C19 (append-only): a successful Append leaves the bytes that were in the
\* file where they are, writes exactly the encoded record behind them, at
\* the end-of-file position that held before the call, and returns that
\* position; and no operation of the Writer (Open, Append, Close), whatever
\* damage the file took at rest before, changes a byte below the safe offset
\* of the file: the records a scan returned before the operation are
\* returned by a scan after it, at the same offsets and with the same
\* payloads.
AppendOnly ==
    [][/\ AppendSucceeded =>
            /\ last'.offset = Len(file)
            /\ file' = file \o encoded(last'.payload)
       /\ (file' # file /\ faulted' = faulted) =>
            \A old \in {Scan(file)} :
              /\ Len(file') >= old.safeOffset
              /\ SubSeq(file', 1, old.safeOffset) = SubSeq(file, 1, old.safeOffset)
              /\ IsPrefix(old.records, Scan(file').records)]_vars

\* C19 witness: the second of two records was damaged, Open cut it off, and
\* a record was appended behind the first, which scans as before
AppendOnlyWitness ==
    /\ last.op = "Append"
    /\ last.err = "ok"
    /\ faulted
    /\ Len(hist) = 3
    /\ Len(Recs) = 2
    /\ Recs[1].offset = hist[1].offset
    /\ Recs[1].payload = hist[1].payload
    /\ last.offset = Recs[2].offset
    /\ last.offset + Len(encoded(last.payload)) = Len(file)

\* C20 (Writer and Scanner agree): while a Writer holds the file open, that
\* is after a successful Open and any number of Appends that returned, its
\* append offset equals the length of the file and the safe offset a scan
\* of the file returns, and is a multiple of 8; the offsets that successive
\* successful Appends returned are multiples of 8, strictly increasing, and
\* each is the one before plus the encoded size of the record before.
WriterScannerAgree ==
    /\ handle = "open" =>
         /\ woffset = Len(file)
         /\ woffset % 8 = 0
         /\ Scan(file).safeOffset = woffset
    /\ \A i \in 1..Len(hist) :
         hist[i].status = "ok" =>
           /\ hist[i].offset % 8 = 0
           /\ (i < Len(hist) /\ hist[i + 1].status = "ok") =>
                /\ hist[i + 1].offset > hist[i].offset
                /\ hist[i + 1].offset =
                     hist[i].offset
                       + ((headerSize + Len(hist[i].payload) + trailerSize + 7) \div 8) * 8

\* C20 witness: three Appends returned to a Writer that still holds the
\* file open, and the scan sees all three records
WriterScannerWitness ==
    /\ handle = "open"
    /\ Len(hist) = 3
    /\ \A i \in 1..3 : hist[i].status = "ok"
    /\ Len(hist[2].payload) = MaxPayload
    /\ hist[3].offset > hist[2].offset
    /\ woffset = Len(file)
    /\ Len(Recs) = 3

=============================================================================
